---------------------------- MODULE Spec2Model ----------------------------
(***************************************************************************)
(* Model of the request-admission middleware of the chat API:              *)
(*   src/src/api/middleware/rate_limit.py  RateLimitMiddleware             *)
(*   src/src/api/middleware/logging.py     RequestLoggingMiddleware        *)
(* and of the application that main.py assembles:                          *)
(*   src/src/api/main.py                   app, chat_completion            *)
(*                                                                         *)
(* Time is counted in ticks of 1/TicksPerSecond second and a token count   *)
(* is kept as an integer number of units, Scale units to the token, so     *)
(* that tokens + time_passed * refill_rate is exact: one tick refills      *)
(* requests_per_minute units.  The code computes with Python floats; the   *)
(* model computes with the exact rationals those floats approximate.       *)
(*                                                                         *)
(* Both dispatch coroutines run on one asyncio event loop: the code        *)
(* between two awaits is one step, and the only await of either dispatch   *)
(* is "await call_next(request)".                                          *)
(***************************************************************************)
EXTENDS Integers, Sequences, FiniteSets

VARIABLES
    requests_per_minute,  \* self.requests_per_minute (the bucket capacity)
    tokens,               \* self.tokens: client_ip -> (tokens, last_refill)
    clock,                \* the value time.time() returns now, in ticks
    inflight,             \* dispatches suspended in "await call_next", by kind
    last,                 \* the request RateLimitMiddleware finished last
    hist,                 \* the run of evaluations of the client it follows
    lg,                   \* the RequestLoggingMiddleware.dispatch in progress
    emitted,              \* the records it logged for that request
    lgResult,             \* what its caller got, and what call_next had done
    app                   \* main.py's app: the handlers running, the last
                          \* request routed and the last one answered

vars == <<requests_per_minute, tokens, clock, inflight, last, hist,
          lg, emitted, lgResult, app>>

rlVars == <<requests_per_minute, tokens, inflight, last, hist>>
lgVars == <<lg, emitted, lgResult>>
appVars == <<app>>

----------------------------------------------------------------------------
(* Bounds of the model *)

TicksPerSecond == 1       \* resolution of the clock
MaxFar == 1               \* the clock reads 0, FarSeconds, .. MaxFar * FarSeconds
MaxNear == 1              \* refill scenario: instants up to MaxNear ticks late
MaxInFlight == 2          \* dispatches suspended in call_next at once
MaxCapacity == 2          \* capacities 1..MaxCapacity of the main specification
RefillWaitSeconds == 5    \* the wait of the refill scenario, in seconds
MaxSeen == 4              \* evaluations recorded one by one, where they are

(* Program constants *)

SecondsPerMinute == 60    \* requests_per_minute / 60.0
DefaultRequestsPerMinute == 60
TooManyRequests == 429
RetryAfterValue == 60     \* headers={"Retry-After": "60"}

(* The step of the clock of the main specification *)
FarSeconds == (2 * SecondsPerMinute) \div 3   \* two thirds of the window

Scale == SecondsPerMinute * TicksPerSecond   \* units per token

Clients == {"10.0.0.1", "10.0.0.2"}
RefillClients == {"10.0.0.1"}
Followed == "10.0.0.1"           \* the client whose evaluations hist records
Paths == {"/health", "/chat"}
Methods == {"GET", "POST"}
Decisions == {"bypass", "allow", "deny"}
Kinds == Paths \X Decisions      \* a request's path and the branch it took
Exceptions == {"RuntimeError", "AttributeError"}
StatusCodes == {200, TooManyRequests}

Capacities == 1..MaxCapacity
ConfigValues == (0 - 1)..2

(* The instants the clock can read, in ticks.  The refill scenario needs
   instants five seconds apart, and a bucket of 60 refills a token a second;
   the small buckets of the main specification refill over tens of seconds. *)
Times == {k * FarSeconds * TicksPerSecond : k \in 0..MaxFar}
RefillTimes ==
    {k * RefillWaitSeconds * TicksPerSecond + d : k \in 0..1, d \in 0..MaxNear}

(* The instants of the comparison with the specified algorithm: a third of
   the window apart, so that a denial can find a fraction of a token *)
SeenTimes ==
    {k * (FarSeconds \div 2) * TicksPerSecond : k \in 0..(2 * MaxFar + 1)}

NoTime == 0 - 1
NoRetry == 0 - 1

----------------------------------------------------------------------------
(* Values *)

Min(a, b) == IF a < b THEN a ELSE b

NoOutcome == [kind |-> "none", status_code |-> 0, retry_after |-> NoRetry, exc |-> ""]
Raise(e) == [kind |-> "raise", status_code |-> 0, retry_after |-> NoRetry, exc |-> e]
Returned(status, retry) ==
    [kind |-> "response", status_code |-> status, retry_after |-> retry, exc |-> ""]

(* What call_next(request) can do: return the handler's response or raise *)
DownstreamOutcomes == {Returned(200, NoRetry), Raise("RuntimeError")}

(* starlette's Response(content, status_code, headers): __init__ renders the
   body, and render() returns None as b"", bytes as they are, and anything
   else through content.encode(charset); a dict has no encode. *)
Response(content_type, status_code, retry_after) ==
    IF content_type \in {"none", "bytes", "str"}
    THEN Returned(status_code, retry_after)
    ELSE Raise("AttributeError")

(* The dispatches in flight: those suspended at "await call_next" *)
PathLoad(p) ==
    inflight[<<p, "bypass">>] + inflight[<<p, "allow">>] + inflight[<<p, "deny">>]

InFlight == PathLoad("/health") + PathLoad("/chat")

(* last: the path and branch of the request, what call_next did for it
   (nothing when it was not called) and what the caller of dispatch got *)
NoLast == [path |-> "", decision |-> "none", down |-> NoOutcome,
           outcome |-> NoOutcome]

(* hist: the evaluations of the followed client.  A run is a series of its
   evaluations at one instant: runAt the instant, runLen and runAllowed the
   evaluations and admissions in it, runFresh whether its first evaluation
   created the bucket at that instant; prevDenyAt and prevRetry the instant
   and Retry-After of the evaluation before the run when that was a denial;
   seen its first `follow` evaluations one by one: the instant read at line
   40, the decision, and the bucket self.tokens held for it afterwards. *)
NoHist(c) ==
    [client |-> c, runAt |-> NoTime, runLen |-> 0, runAllowed |-> 0,
     runFresh |-> FALSE, prevDenyAt |-> NoTime, prevRetry |-> NoRetry,
     lastDecision |-> "none", lastRetry |-> NoRetry,
     follow |-> 0, seen |-> << >>]

----------------------------------------------------------------------------
(* RateLimitMiddleware *)

(* __init__: the state of a middleware constructed with requests_per_minute *)
RateLimitInit(rpm) ==
    /\ requests_per_minute = rpm
    /\ tokens = << >>
    /\ inflight = [k \in Kinds |-> 0]
    /\ last = NoLast
    /\ hist = NoHist(Followed)

(* Mutant: the rate is taken per minute's worth, the division by 60 lost *)
refill_rate_undivided == requests_per_minute * SecondsPerMinute

(* self.refill_rate = requests_per_minute / 60.0 tokens per second, which is
   requests_per_minute units per tick *)
refill_rate == requests_per_minute

(* Mutant: a new bucket starts one token short of the capacity *)
BucketOfShort(client_ip, t0) ==
    IF client_ip \in DOMAIN tokens
    THEN tokens[client_ip]
    ELSE [tokens |-> (requests_per_minute - 1) * Scale, last_refill |-> t0]

(* if client_ip not in self.tokens: self.tokens[client_ip] = (rpm, time.time()) *)
BucketOf(client_ip, t0) ==
    IF client_ip \in DOMAIN tokens
    THEN tokens[client_ip]
    ELSE [tokens |-> requests_per_minute * Scale, last_refill |-> t0]

(* Mutant: the refill is not capped at the capacity *)
new_tokens_uncapped(bucket, now) ==
    bucket.tokens + (now - bucket.last_refill) * refill_rate

(* new_tokens = min(requests_per_minute, tokens + time_passed * refill_rate) *)
new_tokens(bucket, now) ==
    LET time_passed == now - bucket.last_refill
    IN  Min(requests_per_minute * Scale, bucket.tokens + time_passed * refill_rate)

(* Mutant: no path is exempt *)
BypassedNever(path) == FALSE

(* if request.url.path == "/health" *)
Bypassed(path) == path = "/health"

(* Mutant: the request is denied only when no token is left at all *)
DeniedBelowZero(nt) == nt < 0

(* if new_tokens < 1 *)
Denied(nt) == nt < Scale

(* Mutant: the admitted request's token is not taken (a lost update) *)
ConsumedNothing(nt, now) == [tokens |-> nt, last_refill |-> now]

(* self.tokens[client_ip] = (new_tokens - 1, now) *)
Consumed(nt, now) == [tokens |-> nt - Scale, last_refill |-> now]

(* self.tokens[client_ip] = value *)
Store(client_ip, bucket) ==
    [c \in DOMAIN tokens \cup {client_ip} |->
        IF c = client_ip THEN bucket ELSE tokens[c]]

(* The rejection the deny branch builds *)
Rejection == Response("dict", TooManyRequests, RetryAfterValue)

(* The run counters saturate past every count the properties compare them
   with: the capacity of a small bucket, the tokens of the refill wait *)
CountLimit ==
    IF requests_per_minute \in 0..MaxCapacity
    THEN requests_per_minute + 2
    ELSE RefillWaitSeconds + 2

Sat(n) == IF n < CountLimit THEN n + 1 ELSE CountLimit

(* The history after one more evaluation of client_ip at `now` *)
Evaluated(h, client_ip, fresh, now, decision, retry) ==
    IF h.client # client_ip THEN h
    ELSE IF h.runLen > 0 /\ h.runAt = now
    THEN [h EXCEPT !.runLen = Sat(h.runLen),
                   !.runAllowed = IF decision = "allow" THEN Sat(h.runAllowed)
                                  ELSE h.runAllowed,
                   !.lastDecision = decision,
                   !.lastRetry = retry]
    ELSE [client |-> h.client, runAt |-> now, runLen |-> 1,
          runAllowed |-> IF decision = "allow" THEN 1 ELSE 0,
          runFresh |-> fresh,
          prevDenyAt |-> IF h.lastDecision = "deny" THEN h.runAt ELSE NoTime,
          prevRetry |-> IF h.lastDecision = "deny" THEN h.lastRetry ELSE NoRetry,
          lastDecision |-> decision,
          lastRetry |-> retry,
          follow |-> h.follow,
          seen |-> h.seen]

(* hist.seen after one more evaluation of client_ip *)
Seen(h, client_ip, now, decision, stored) ==
    IF h.client = client_ip /\ Len(h.seen) < h.follow
    THEN Append(h.seen, [now |-> now, decision |-> decision, bucket |-> stored])
    ELSE h.seen

(* time.time() at line 40 under a clock that only moves forward: it may have
   moved on since the state was last looked at (and since the read of line
   36, for a new client).  Under a wall clock that can be set back, line 40
   can read any instant. *)
NextReads(Ts) == {t \in Ts : clock <= t}

(* dispatch, lines 28-32: the health check skips the limiter *)
DispatchBypass(client_ip, path) ==
    /\ InFlight < MaxInFlight
    /\ Bypassed(path)
    /\ inflight' = [inflight EXCEPT ![<<path, "bypass">>] = @ + 1]
    /\ UNCHANGED <<requests_per_minute, tokens, clock, last, hist>>
    /\ UNCHANGED lgVars
    /\ UNCHANGED appVars

(* dispatch, lines 28-54: the request is denied.  Nothing is stored but the
   bucket of a new client; the caller gets what building the Response gives.
   hist notes the Retry-After value the branch hands to Response. *)
DispatchDeny(client_ip, path, now) ==
    LET bucket == BucketOf(client_ip, clock)
        nt == new_tokens(bucket, now)
    IN  /\ ~Bypassed(path)
        /\ Denied(nt)
        /\ tokens' = Store(client_ip, bucket)
        /\ clock' = now
        /\ last' = [path |-> path, decision |-> "deny", down |-> NoOutcome,
                    outcome |-> Rejection]
        /\ hist' = [Evaluated(hist, client_ip,
                              client_ip \notin DOMAIN tokens /\ now = clock,
                              now, "deny", RetryAfterValue)
                        EXCEPT !.seen = Seen(hist, client_ip, now, "deny", bucket)]
        /\ UNCHANGED <<requests_per_minute, inflight>>
        /\ UNCHANGED lgVars
        /\ UNCHANGED appVars

(* dispatch, lines 28-60: the request is admitted and awaits call_next *)
DispatchAllow(client_ip, path, now) ==
    LET bucket == BucketOf(client_ip, clock)
        nt == new_tokens(bucket, now)
    IN  /\ InFlight < MaxInFlight
        /\ ~Bypassed(path)
        /\ ~Denied(nt)
        /\ tokens' = Store(client_ip, Consumed(nt, now))
        /\ clock' = now
        /\ inflight' = [inflight EXCEPT ![<<path, "allow">>] = @ + 1]
        /\ hist' = [Evaluated(hist, client_ip,
                              client_ip \notin DOMAIN tokens /\ now = clock,
                              now, "allow", NoRetry)
                        EXCEPT !.seen = Seen(hist, client_ip, now, "allow",
                                             Consumed(nt, now))]
        /\ UNCHANGED <<requests_per_minute, last>>
        /\ UNCHANGED lgVars
        /\ UNCHANGED appVars

(* Mutant: a failure of the handler is answered with the rejection *)
DeniedOnFailure(out) ==
    IF out.kind = "raise" THEN Returned(TooManyRequests, RetryAfterValue) ELSE out

(* response = await call_next(request); return response: no try around the
   await, so the response is returned as it is and an exception goes on to
   the caller *)
Propagated(out) == out

(* Mutant: the token of a request whose handler failed is given back *)
RefundedOnFailure(out) ==
    IF out.kind = "raise"
    THEN [c \in DOMAIN tokens |->
            [tokens[c] EXCEPT
                !.tokens = Min(requests_per_minute * Scale, @ + Scale)]]
    ELSE tokens

(* self.tokens after call_next: lines 60-61 do not write it *)
Settled(out) == tokens

(* dispatch, lines 32 and 60-61: call_next returns or raises, and dispatch
   returns the response or lets the exception through *)
CallNextDone(k, out) ==
    /\ inflight[k] > 0
    /\ last' = [path |-> k[1], decision |-> k[2], down |-> out,
                outcome |-> Propagated(out)]
    /\ inflight' = [inflight EXCEPT ![k] = @ - 1]
    /\ tokens' = Settled(out)
    /\ UNCHANGED <<requests_per_minute, clock, hist>>
    /\ UNCHANGED lgVars
    /\ UNCHANGED appVars

----------------------------------------------------------------------------
(* The clock *)

Advance(Ts) ==
    /\ \E t \in Ts : t > clock /\ clock' = t
    /\ UNCHANGED rlVars
    /\ UNCHANGED lgVars
    /\ UNCHANGED appVars

ClockRegress(Ts) ==
    /\ \E t \in Ts : t < clock /\ clock' = t
    /\ UNCHANGED rlVars
    /\ UNCHANGED lgVars
    /\ UNCHANGED appVars

----------------------------------------------------------------------------
(* RequestLoggingMiddleware *)

IdleLog == [pc |-> "idle", method |-> "", path |-> "", start_time |-> 0]

(* down: what call_next did; got: what the caller of dispatch got;
   header: whether X-Process-Time was set on the response *)
NoResult == [down |-> NoOutcome, got |-> NoOutcome, process_time |-> 0,
             header |-> FALSE]

LoggingInit ==
    /\ lg = IdleLog
    /\ emitted = << >>
    /\ lgResult = NoResult

LogRecord(level, kind, status, error, process_time) ==
    [level |-> level, kind |-> kind, method |-> lg.method, path |-> lg.path,
     status_code |-> status, error |-> error, process_time |-> process_time]

(* dispatch, lines 22-29: note the time, log the request, await call_next *)
LogDispatch(method, path) ==
    /\ lg.pc = "idle"
    /\ lg' = [pc |-> "call_next", method |-> method, path |-> path,
              start_time |-> clock]
    /\ emitted' = <<[level |-> "info", kind |-> "Request", method |-> method,
                     path |-> path, status_code |-> 0, error |-> "",
                     process_time |-> 0]>>
    /\ lgResult' = NoResult
    /\ UNCHANGED clock
    /\ UNCHANGED rlVars
    /\ UNCHANGED appVars

(* dispatch, lines 29-41: call_next returned a response *)
LogResponse(status, now) ==
    LET process_time == now - lg.start_time
    IN  /\ lg.pc = "call_next"
        /\ clock' = now
        /\ emitted' = Append(emitted,
                LogRecord("info", "Response", status, "", process_time))
        /\ lgResult' = [down |-> Returned(status, NoRetry),
                        got |-> Returned(status, NoRetry),
                        process_time |-> process_time, header |-> TRUE]
        /\ lg' = [lg EXCEPT !.pc = "idle"]
        /\ UNCHANGED rlVars
        /\ UNCHANGED appVars

(* Mutant: the failure is logged and answered with a response *)
Swallowed(e) == Returned(500, NoRetry)

(* except Exception as e: log the error; raise *)
Reraised(e) == Raise(e)

(* dispatch, lines 43-50: call_next raised *)
LogError(e, now) ==
    LET process_time == now - lg.start_time
    IN  /\ lg.pc = "call_next"
        /\ clock' = now
        /\ emitted' = Append(emitted, LogRecord("error", "Error", 0, e, process_time))
        /\ lgResult' = [down |-> Raise(e), got |-> Reraised(e),
                        process_time |-> process_time, header |-> FALSE]
        /\ lg' = [lg EXCEPT !.pc = "idle"]
        /\ UNCHANGED rlVars
        /\ UNCHANGED appVars

LoggingNext(Ts) ==
    \/ \E m \in Methods, p \in Paths : LogDispatch(m, p)
    \/ \E st \in StatusCodes, now \in Ts : LogResponse(st, now)
    \/ \E e \in Exceptions, now \in Ts : LogError(e, now)

----------------------------------------------------------------------------
(* main.py: the application *)

Routes == {"/api/ChatCompletion", "/health"}
AppStatusCodes == {200, 500}

(* The middleware main.py adds to app: CORSMiddleware alone.  The imports of
   RateLimitMiddleware and RequestLoggingMiddleware are commented out and no
   add_middleware call names them. *)
user_middleware == <<"CORSMiddleware">>

(* The layers a request goes through on its way to the route's handler *)
Layers == {user_middleware[i] : i \in DOMAIN user_middleware}

(* The handlers running: those suspended at an await, or yet to answer *)
RouteLoad(path) == app.running[<<"10.0.0.1", path>>] + app.running[<<"10.0.0.2", path>>]

Running == RouteLoad("/api/ChatCompletion") + RouteLoad("/health")

NoRouted == [client |-> "", path |-> "", through |-> {}]
NoAnswer == [client |-> "", path |-> "", status_code |-> 0]

(* app = FastAPI(...) *)
AppInit ==
    app = [running |-> [k \in Clients \X Routes |-> 0],
           routed |-> NoRouted, answered |-> NoAnswer]

(* What a handler answers with: chat_completion returns the completion, or
   raises HTTPException(500) from its except clause; health_check returns *)
Answers(path) ==
    IF path = "/api/ChatCompletion" THEN AppStatusCodes ELSE {200}

(* A request enters app: it goes through the layers of user_middleware, and
   the router calls the handler of its path *)
AppRoute(client_ip, path) ==
    /\ Running < MaxInFlight
    /\ app' = [app EXCEPT !.running[<<client_ip, path>>] = @ + 1,
                          !.routed = [client |-> client_ip, path |-> path,
                                      through |-> Layers]]
    /\ UNCHANGED clock
    /\ UNCHANGED rlVars
    /\ UNCHANGED lgVars

(* The handler answers *)
AppAnswer(client_ip, path, status) ==
    /\ app.running[<<client_ip, path>>] > 0
    /\ status \in Answers(path)
    /\ app' = [app EXCEPT !.running[<<client_ip, path>>] = @ - 1,
                          !.answered = [client |-> client_ip, path |-> path,
                                        status_code |-> status]]
    /\ UNCHANGED clock
    /\ UNCHANGED rlVars
    /\ UNCHANGED lgVars

----------------------------------------------------------------------------
(* Specifications *)

RateLimitNext(Cs, Reads) ==
    \/ \E c \in Cs, p \in Paths : DispatchBypass(c, p)
    \/ \E c \in Cs, p \in Paths, now \in Reads : DispatchDeny(c, p, now)
    \/ \E c \in Cs, p \in Paths, now \in Reads : DispatchAllow(c, p, now)
    \/ \E k \in Kinds, out \in DownstreamOutcomes : CallNextDone(k, out)

Init ==
    /\ \E rpm \in Capacities : RateLimitInit(rpm)
    /\ clock = 0
    /\ LoggingInit
    /\ AppInit

Next ==
    \/ Advance(Times)
    \/ ClockRegress(Times)
    \/ RateLimitNext(Clients, Times)

Spec == Init /\ [][Next]_vars

(* The default configuration, one client, a clock that only moves forward *)
InitRefill ==
    /\ RateLimitInit(DefaultRequestsPerMinute)
    /\ clock = 0
    /\ LoggingInit
    /\ AppInit

NextRefill ==
    \/ Advance(RefillTimes)
    \/ \E c \in RefillClients, p \in Paths : DispatchBypass(c, p)
    \/ \E c \in RefillClients, p \in Paths, now \in NextReads(RefillTimes) :
            DispatchDeny(c, p, now)
    \/ \E c \in RefillClients, p \in Paths, now \in NextReads(RefillTimes) :
            DispatchAllow(c, p, now)
    \/ \E k \in Kinds, out \in DownstreamOutcomes : CallNextDone(k, out)

SpecRefill == InitRefill /\ [][NextRefill]_vars

(* Any integer the constructor accepts *)
InitConfig ==
    /\ \E rpm \in ConfigValues : RateLimitInit(rpm)
    /\ clock = 0
    /\ LoggingInit
    /\ AppInit

SpecConfig == InitConfig /\ [][Next]_vars

(* The logging middleware over any downstream *)
NextLogging ==
    \/ Advance(RefillTimes)
    \/ ClockRegress(RefillTimes)
    \/ LoggingNext(RefillTimes)

SpecLogging == Init /\ [][NextLogging]_vars

(* main.py's app, no limiter constructed: its variables stay as __init__
   would leave them *)
InitApp ==
    /\ RateLimitInit(DefaultRequestsPerMinute)
    /\ clock = 0
    /\ LoggingInit
    /\ AppInit

NextApp ==
    \/ \E c \in Clients, p \in Routes : AppRoute(c, p)
    \/ \E c \in Clients, p \in Routes, st \in AppStatusCodes : AppAnswer(c, p, st)

SpecApp == InitApp /\ [][NextApp]_vars

(* The default configuration, one client, a wall clock that is set back and
   forth by seconds *)
NextRegress ==
    \/ Advance(RefillTimes)
    \/ ClockRegress(RefillTimes)
    \/ \E c \in RefillClients, p \in Paths : DispatchBypass(c, p)
    \/ \E c \in RefillClients, p \in Paths, now \in RefillTimes :
            DispatchDeny(c, p, now)
    \/ \E c \in RefillClients, p \in Paths, now \in RefillTimes :
            DispatchAllow(c, p, now)
    \/ \E k \in Kinds, out \in DownstreamOutcomes : CallNextDone(k, out)

SpecRegress == InitRefill /\ [][NextRegress]_vars
(* Capacities 1..MaxCapacity, one client whose first MaxSeen evaluations
   are recorded one by one, a clock that only moves forward *)
InitSeen ==
    /\ \E rpm \in Capacities : requests_per_minute = rpm
    /\ tokens = << >>
    /\ inflight = [k \in Kinds |-> 0]
    /\ last = NoLast
    /\ hist = [NoHist(Followed) EXCEPT !.follow = MaxSeen]
    /\ clock = 0
    /\ LoggingInit
    /\ AppInit

NextSeen ==
    \/ Advance(SeenTimes)
    \/ \E p \in Paths \ {"/health"}, now \in NextReads(SeenTimes) :
            DispatchDeny(Followed, p, now)
    \/ \E p \in Paths \ {"/health"}, now \in NextReads(SeenTimes) :
            DispatchAllow(Followed, p, now)
    \/ \E k \in Kinds, out \in DownstreamOutcomes : CallNextDone(k, out)

SpecSeen == InitSeen /\ [][NextSeen]_vars

----------------------------------------------------------------------------
(* Properties *)

Capacity == requests_per_minute * Scale
Watched == hist.client
WaitTicks == RefillWaitSeconds * TicksPerSecond

(* ceil(a / b) for b > 0 *)
CeilDiv(a, b) == IF a <= 0 THEN 0 - ((0 - a) \div b) ELSE (a + b - 1) \div b

(* C1: after every evaluation, under any clock readings and any interleaving
   of clients, every stored bucket holds 0 <= tokens <= capacity. *)
TokensWithinCapacity ==
    \A c \in DOMAIN tokens :
        0 <= tokens[c].tokens /\ tokens[c].tokens <= Capacity

(* Two clients have buckets, one empty and one holding a fraction of a token,
   a request has been denied, and the clock reads less than a last_refill. *)
TokensWithinCapacityWitness ==
    /\ DOMAIN tokens = Clients
    /\ \E c \in Clients : tokens[c].tokens = 0
    /\ \E c \in Clients : tokens[c].tokens % Scale # 0
    /\ \E c \in Clients : clock < tokens[c].last_refill
    /\ hist.lastDecision = "deny"

(* C2: a new client's requests at the instant its bucket was created are
   admitted up to the capacity-th, and denied from the (capacity+1)-th on. *)
BurstAdmission ==
    (hist.runFresh /\ hist.runLen >= 1) =>
        (hist.lastDecision = "allow" <=> hist.runLen <= requests_per_minute)

(* The (capacity+1)-th request of the burst of a new client has been denied
   after capacity admissions, for the largest capacity. *)
BurstAdmissionWitness ==
    /\ requests_per_minute = MaxCapacity
    /\ hist.runFresh
    /\ hist.runLen = requests_per_minute + 1
    /\ hist.runAllowed = requests_per_minute
    /\ hist.lastDecision = "deny"

(* C3: with capacity 1, of the requests of one new client handled
   concurrently at one instant exactly one is allowed, whatever the
   interleaving of the dispatches. *)
NoLostUpdates ==
    (requests_per_minute = 1 /\ hist.runFresh /\ hist.runLen >= 1) =>
        hist.runAllowed = 1

(* Three requests of the only client so far, at one instant: the allowed one
   is still awaiting call_next while the other two have been denied. *)
NoLostUpdatesWitness ==
    /\ requests_per_minute = 1
    /\ DOMAIN tokens = {Watched}
    /\ hist.runFresh
    /\ hist.runLen = 3
    /\ hist.runAllowed = 1
    /\ inflight[<<"/chat", "allow">>] = 1
    /\ InFlight = 1

(* C4: a denied request never reaches call_next, and its caller gets a
   response with status 429 and a Retry-After header. *)
DenyShortCircuits ==
    /\ \A p \in Paths : inflight[<<p, "deny">>] = 0
    /\ last.decision = "deny" =>
        /\ last.outcome.kind = "response"
        /\ last.outcome.status_code = TooManyRequests
        /\ last.outcome.retry_after # NoRetry

(* C5: a /health request is forwarded to call_next whatever the buckets
   hold, is never evaluated or denied, and leaves the bucket store as it
   was. *)
BypassGuarantee ==
    /\ [](/\ \A d \in {"allow", "deny"} : inflight[<<"/health", d>>] = 0
          /\ last.path = "/health" => last.decision = "bypass")
    /\ [][inflight'[<<"/health", "bypass">>] > inflight[<<"/health", "bypass">>]
            => tokens' = tokens]_vars

(* Every client's bucket is exhausted, a request has been denied, and a
   /health request is in call_next. *)
BypassGuaranteeWitness ==
    /\ DOMAIN tokens = Clients
    /\ \A c \in Clients : tokens[c].tokens < Scale
    /\ hist.lastDecision = "deny"
    /\ hist.runAt = clock
    /\ inflight[<<"/health", "bypass">>] >= 1

(* C6: capacity 60, one token a second: the requests made at one instant
   five seconds after a denial are admitted up to the fifth, and denied from
   the sixth on. *)
RefillAfterWait ==
    (/\ requests_per_minute = DefaultRequestsPerMinute
     /\ hist.prevDenyAt # NoTime
     /\ hist.runAt = hist.prevDenyAt + WaitTicks) =>
        (hist.lastDecision = "allow" <=> hist.runLen <= RefillWaitSeconds)

(* The sixth request five seconds after a denial has been denied, after
   five admissions. *)
RefillAfterWaitWitness ==
    /\ requests_per_minute = DefaultRequestsPerMinute
    /\ hist.prevDenyAt # NoTime
    /\ hist.runAt = hist.prevDenyAt + WaitTicks
    /\ hist.runLen = RefillWaitSeconds + 1
    /\ hist.runAllowed = RefillWaitSeconds
    /\ hist.lastDecision = "deny"

(* The Retry-After of the specification for a denial that found nt units:
   ceil((1 - refilledTokens) / refillRatePerSecond) *)
RetryAfterDue(nt) ==
    CeilDiv((Scale - nt) * SecondsPerMinute, Scale * requests_per_minute)

(* C7: every denial reports Retry-After =
   ceil((1 - refilledTokens) / refillRatePerSecond), which is >= 1. *)
RetryAfterComputed ==
    [][(hist' # hist /\ hist'.lastDecision = "deny") =>
        /\ hist'.lastRetry = RetryAfterDue(new_tokens(BucketOf(Watched, clock), clock'))
        /\ hist'.lastRetry >= 1]_vars

(* C8: of two denials in a row, t seconds apart, the second reports a
   Retry-After r2 with 1 <= r2 <= r1 that is within a second of r1 - t. *)
RetryAfterTracksElapsed ==
    (/\ hist.lastDecision = "deny"
     /\ hist.runLen = 1
     /\ hist.prevDenyAt # NoTime
     /\ hist.runAt >= hist.prevDenyAt) =>
        LET dt == hist.runAt - hist.prevDenyAt
            r1 == hist.prevRetry
            r2 == hist.lastRetry
            off == (r2 - r1) * TicksPerSecond + dt
        IN  /\ 1 <= r2
            /\ r2 <= r1
            /\ off <= TicksPerSecond
            /\ 0 - TicksPerSecond <= off

(* C9: when call_next raises, the logging middleware logs an error record
   with the request's method and path and the duration, and its caller gets
   the same exception, not a response. *)
FailureTransparency ==
    (lg.pc = "idle" /\ lgResult.down.kind = "raise") =>
        /\ lgResult.got = lgResult.down
        /\ Len(emitted) >= 1
        /\ LET rec == emitted[Len(emitted)]
           IN  /\ rec.level = "error"
               /\ rec.method = lg.method
               /\ rec.path = lg.path
               /\ rec.error = lgResult.down.exc
               /\ rec.process_time = lgResult.process_time

(* call_next raised AttributeError some seconds after a POST /chat began. *)
FailureTransparencyWitness ==
    /\ lg.pc = "idle"
    /\ lg.method = "POST"
    /\ lg.path = "/chat"
    /\ lgResult.down = Raise("AttributeError")
    /\ lgResult.got.kind = "raise"
    /\ lgResult.process_time >= WaitTicks
    /\ Len(emitted) = 2

(* C10: a limiter that has handled a request was constructed with a
   capacity (and so a refill rate) above 0. *)
InvalidConfigRejected ==
    (DOMAIN tokens # {} \/ InFlight > 0 \/ last.decision # "none") =>
        requests_per_minute > 0

(* C11: in main.py's app the handler of a path other than /health runs for
   a request only after the request went through RateLimitMiddleware, which
   forwards it only when it decided to allow it. *)
GatedByLimiter ==
    (app.routed.path # "" /\ ~Bypassed(app.routed.path)) =>
        "RateLimitMiddleware" \in app.routed.through

(* C12: an evaluation of a client at an instant before its stored
   last_refill decides, and refills, as an evaluation at last_refill would:
   the elapsed time counts as 0, the refill does not lower the token count,
   and a client holding a token is admitted. *)
ClockRegressionAbsorbed ==
    [][(/\ hist' # hist
        /\ Watched \in DOMAIN tokens
        /\ clock' < tokens[Watched].last_refill) =>
            LET bucket == tokens[Watched]
                clamped == new_tokens(bucket, bucket.last_refill)
            IN  /\ new_tokens(bucket, clock') = clamped
                /\ clamped >= bucket.tokens
                /\ hist'.lastDecision = "deny" <=> Denied(clamped)]_vars

(* C13: whatever the clock reads, going backwards included, no update of a
   client's bucket lowers its stored last_refill. *)
LastRefillMonotone ==
    [][\A c \in DOMAIN tokens :
            tokens'[c].last_refill >= tokens[c].last_refill]_vars

(* C14: a denied evaluation leaves the client's bucket holding the refilled
   token count, none taken, and last_refill = now.  Stated for the
   evaluations at or after the bucket's last_refill. *)
DenyAdvancesRefill ==
    [][(/\ hist' # hist
        /\ hist'.lastDecision = "deny"
        /\ clock' >= BucketOf(Watched, clock).last_refill) =>
        tokens'[Watched] =
            [tokens |-> new_tokens(BucketOf(Watched, clock), clock'),
             last_refill |-> clock']]_vars

(* C15: nothing is logged for a request before call_next has finished, and
   once it has, whether it returned a 429, returned the handler's response
   or raised, exactly one record has been logged for the request, holding
   its method, its path, the resulting status code and the duration. *)
OneRecordPerRequest ==
    /\ lg.pc = "call_next" => emitted = << >>
    /\ (lg.pc = "idle" /\ lgResult # NoResult) =>
        /\ Len(emitted) = 1
        /\ LET rec == emitted[Len(emitted)]
           IN  /\ rec.method = lg.method
               /\ rec.path = lg.path
               /\ rec.status_code # 0
               /\ rec.process_time = lgResult.process_time

(* The terminal state a finished request ended in *)
ForwardSucceeded(l) ==
    /\ l.decision \in {"bypass", "allow"}
    /\ l.down.kind = "response"
    /\ l.outcome = l.down

ForwardFailed(l) ==
    /\ l.decision \in {"bypass", "allow"}
    /\ l.down.kind = "raise"
    /\ l.outcome = l.down

Reject(l) ==
    /\ l.decision = "deny"
    /\ l.down = NoOutcome
    /\ l.outcome.kind = "response"
    /\ l.outcome.status_code = TooManyRequests

(* C16: a request that has left dispatch went Start -> Bypass -> Forward or
   Start -> Evaluate -> Allow -> Forward or Start -> Evaluate -> Deny ->
   Reject in one pass, and ended in exactly one of Forward-succeeded,
   Forward-failed and Reject. *)
SinglePassTerminal ==
    last.decision # "none" =>
        \/ ForwardSucceeded(last) /\ ~ForwardFailed(last) /\ ~Reject(last)
        \/ ForwardFailed(last) /\ ~ForwardSucceeded(last) /\ ~Reject(last)
        \/ Reject(last) /\ ~ForwardSucceeded(last) /\ ~ForwardFailed(last)

(* C17: admitting a request puts exactly one call of call_next in flight;
   when that call ends it is gone and no other has been started in its
   place, and the caller gets what the call did: its response, or its
   exception and never a 429 made of it. *)
DownstreamCalledOnce ==
    /\ []((last.decision = "allow" /\ last.down.kind = "raise") =>
            /\ last.outcome = last.down
            /\ last.outcome.status_code # TooManyRequests)
    /\ [][\A p \in Paths :
            LET k == <<p, "allow">>
            IN  /\ inflight'[k] > inflight[k] =>
                    inflight' = [inflight EXCEPT ![k] = @ + 1]
                /\ inflight'[k] < inflight[k] =>
                    /\ inflight' = [inflight EXCEPT ![k] = @ - 1]
                    /\ last'.decision = "allow"
                    /\ last'.path = p
                    /\ last'.down \in DownstreamOutcomes
                    /\ last'.outcome = last'.down]_vars

(* An admitted POST /chat whose handler raised has left dispatch with that
   exception, while another admitted request is still in call_next. *)
DownstreamCalledOnceWitness ==
    /\ last.decision = "allow"
    /\ last.path = "/chat"
    /\ last.down = Raise("RuntimeError")
    /\ last.outcome.kind = "raise"
    /\ inflight[<<"/chat", "allow">>] = 1

(* C19: the step that admits a request and puts its call of call_next in
   flight has already stored the client's bucket with the token taken, and
   the step in which a call of call_next ends, with a response or with an
   exception, leaves every bucket as it was: the token is not given back. *)
TokenNeverRefunded ==
    [][/\ (\E p \in Paths : inflight'[<<p, "allow">>] > inflight[<<p, "allow">>]) =>
            \E c \in DOMAIN tokens' :
                /\ tokens'[c] =
                     Consumed(new_tokens(BucketOf(c, clock), clock'), clock')
                /\ \A d \in DOMAIN tokens' \ {c} :
                        d \in DOMAIN tokens /\ tokens'[d] = tokens[d]
       /\ (\E k \in Kinds : inflight'[k] < inflight[k]) =>
            tokens' = tokens]_vars

(* The only request of the followed client was admitted, its handler raised,
   nothing is in flight, and its bucket holds the capacity less the token. *)
TokenNeverRefundedWitness ==
    /\ hist.runLen = 1
    /\ hist.runAllowed = 1
    /\ hist.runFresh
    /\ InFlight = 0
    /\ last.decision = "allow"
    /\ last.down.kind = "raise"
    /\ tokens[Watched].tokens = Capacity - Scale

(* The specified algorithm, evaluate(state, now, config):
     elapsed = max(0, now - state.lastRefill)
     refilledTokens = min(capacity, state.tokens + elapsed * refillRatePerSecond)
     refilledTokens >= 1: Allow, {refilledTokens - 1, now}
     else:                Deny,  {refilledTokens, now} *)
evaluate(state, now) ==
    LET elapsed == IF now - state.last_refill > 0
                   THEN now - state.last_refill ELSE 0
        refilledTokens ==
            Min(Capacity, state.tokens + elapsed * requests_per_minute)
    IN  IF refilledTokens >= Scale
        THEN [decision |-> "allow",
              state |-> [tokens |-> refilledTokens - Scale, last_refill |-> now]]
        ELSE [decision |-> "deny",
              state |-> [tokens |-> refilledTokens, last_refill |-> now]]

(* What the specified algorithm makes of the first n recorded instants, from
   a state created full at the first of them *)
RECURSIVE Specified(_)
Specified(n) ==
    LET now == hist.seen[n].now
    IN  evaluate(IF n = 1
                 THEN [tokens |-> Capacity, last_refill |-> now]
                 ELSE Specified(n - 1).state,
                 now)

(* C18: over the non-bypass requests of one client, at instants that never
   decrease and with a capacity >= 1, dispatch decides each request as the
   specified evaluate does, and after every Allow self.tokens holds for the
   client the state evaluate returns. *)
DecisionEquivalence ==
    \A n \in 1..Len(hist.seen) :
        /\ hist.seen[n].decision = Specified(n).decision
        /\ hist.seen[n].decision = "allow" =>
                hist.seen[n].bucket = Specified(n).state

(* After an admission the client was denied twice, the second time at a
   later instant, where the specified state had moved on and self.tokens had
   not; its next request, later still, was admitted. *)
DecisionEquivalenceWitness ==
    /\ Len(hist.seen) = MaxSeen
    /\ \E n \in 2..(MaxSeen - 1) :
        /\ hist.seen[n - 1].decision = "deny"
        /\ hist.seen[n].decision = "deny"
        /\ hist.seen[n].now > hist.seen[n - 1].now
        /\ hist.seen[n].bucket # Specified(n).state
        /\ hist.seen[n + 1].decision = "allow"
        /\ hist.seen[n + 1].now > hist.seen[n].now

=============================================================================
